---- MODULE Spec2Model ----
(***************************************************************************)
(* CRL revocation checking of notation-core-go,                            *)
(* revocation/internal/crl/crl.go: CertCheckStatus, validate, validateCRL, *)
(* checkRevocation and parseEntryExtensions.                               *)
(*                                                                         *)
(* Times are naturals; 0 is Go's zero time.Time (IsZero).  An extension    *)
(* value (DER bytes) is a sequence of decoded ASN.1 elements, so that      *)
(* a malformed value and trailing data are values the decoders can meet.   *)
(***************************************************************************)
EXTENDS Naturals, Sequences, FiniteSets, TLC

VARIABLES cert, issuer, opts, now, pc, idx, crlURL, bundle, serverResults,
          lastErr, fetchLog, ret

vars == <<cert, issuer, opts, now, pc, idx, crlURL, bundle, serverResults,
          lastErr, fetchLog, ret>>

(***************************************************************************)
(* Bounds of the model.                                                    *)
(***************************************************************************)
\* most revocation entries in a bundle given to checkRevocation (base + delta)
MaxEntries == 2
\* most CRL distribution points of a certificate
MaxURLs == 3
\* greatest CRL number and delta CRL indicator
MaxNumber == 2

(***************************************************************************)
(* Program constants.                                                      *)
(***************************************************************************)
reasonCodeCertificateHold == 6
reasonCodeRemoveFromCRL == 8

oidFreshestCRL == <<2, 5, 29, 46>>
oidIssuingDistributionPoint == <<2, 5, 29, 28>>
oidDeltaCRLIndicator == <<2, 5, 29, 27>>
oidInvalidityDate == <<2, 5, 29, 24>>

\* result.Result values and result.RevocationMethodCRL
ResultOK == "OK"
ResultRevoked == "Revoked"
ResultUnknown == "Unknown"
ResultNonRevokable == "NonRevokable"
RevocationMethodCRL == "CRL"

(***************************************************************************)
(* Go's nil and zero values.                                               *)
(***************************************************************************)
NilCert == [nil |-> "certificate"]
NilCRL == [nil |-> "crl"]
NilBundle == [nil |-> "bundle"]
NilFetcher == [nil |-> "fetcher"]
NilResult == [nil |-> "result"]
NilEntry == [nil |-> "entry"]
NilExtension == [nil |-> "extension"]
NilErr == <<>>
NoURL == <<>>
ZeroTime == 0

IsZero(t) == t = ZeroTime
\* time.Time.Before and time.Time.After
Before(t, u) == t < u
After(t, u) == t > u

(***************************************************************************)
(* ASN.1 decoding of extension values.                                     *)
(***************************************************************************)
GeneralizedTime(t) == [tag |-> "GeneralizedTime", val |-> t]
Integer(n) == [tag |-> "INTEGER", val |-> n]
Garbage == [tag |-> "NULL", val |-> 0]

\* asn1.UnmarshalWithParams(value, &t, "generalized"): (t, rest, err)
UnmarshalGeneralizedTime(value) ==
    IF Len(value) > 0 /\ Head(value).tag = "GeneralizedTime"
    THEN [time |-> Head(value).val, rest |-> Tail(value), err |-> NilErr]
    ELSE [time |-> ZeroTime, rest |-> <<>>, err |-> <<"asn1: structure error">>]

\* cryptobyte.String.ReadASN1Integer: reads one INTEGER, the rest stays unread
ReadASN1Integer(value) ==
    IF Len(value) > 0 /\ Head(value).tag = "INTEGER"
    THEN [ok |-> TRUE, int |-> Head(value).val]
    ELSE [ok |-> FALSE, int |-> 0]

Extension(id, critical, value) == [Id |-> id, Critical |-> critical, Value |-> value]

RECURSIVE FindExtensionByOID(_, _)
\* x509util.FindExtensionByOID: the first extension with the identifier, or nil
FindExtensionByOID(extensions, oid) ==
    IF extensions = <<>> THEN NilExtension
    ELSE IF Head(extensions).Id = oid THEN Head(extensions)
    ELSE FindExtensionByOID(Tail(extensions), oid)

(***************************************************************************)
(* parseEntryExtensions                                                    *)
(***************************************************************************)
RECURSIVE parseExtensionsFrom(_, _)
\* the loop over entry.Extensions, with the invalidity date read so far
parseExtensionsFrom(exts, invalidityDate) ==
    IF exts = <<>> THEN [invalidityDate |-> invalidityDate, err |-> NilErr]
    ELSE LET ext == Head(exts) IN
         IF ext.Id = oidInvalidityDate
         THEN LET u == UnmarshalGeneralizedTime(ext.Value) IN
              IF u.err # NilErr
              THEN [invalidityDate |-> ZeroTime,
                    err |-> <<"failed to parse invalidity date">> \o u.err]
              ELSE IF Len(u.rest) > 0
              THEN [invalidityDate |-> ZeroTime,
                    err |-> <<"invalid invalidity date extension: trailing data">>]
              ELSE parseExtensionsFrom(Tail(exts), u.time)
         ELSE IF ext.Critical
         THEN [invalidityDate |-> ZeroTime,
               err |-> <<"unsupported critical extension found in CRL", ext.Id>>]
         ELSE parseExtensionsFrom(Tail(exts), invalidityDate)

\* mutant: the error of the loop is dropped
parseEntryExtensions_ErrorDropped(entry) ==
    [parseExtensionsFrom(entry.Extensions, ZeroTime) EXCEPT !.err = NilErr]

parseEntryExtensions(entry) == parseExtensionsFrom(entry.Extensions, ZeroTime)

(***************************************************************************)
(* checkRevocation                                                         *)
(***************************************************************************)
\* mutant: RevocationMethod is left at its zero value
ServerResult_MethodUnset(result, server, err) ==
    [Result |-> result, Server |-> server, Error |-> err,
     RevocationMethod |-> "Unknown"]

ServerResult(result, server, err) ==
    [Result |-> result, Server |-> server, Error |-> err,
     RevocationMethod |-> RevocationMethodCRL]

\* mutant: the delta CRL's entries are yielded before the base CRL's
revocationListIter_DeltaFirst(b) ==
    (IF b.DeltaCRL # NilCRL THEN b.DeltaCRL.RevokedCertificateEntries ELSE <<>>) \o
    b.BaseCRL.RevokedCertificateEntries

\* the merged iterator: the base CRL's entries, then the delta CRL's
revocationListIter(b) ==
    b.BaseCRL.RevokedCertificateEntries \o
    (IF b.DeltaCRL # NilCRL THEN b.DeltaCRL.RevokedCertificateEntries ELSE <<>>)

\* mutant: the comparison is the other way round
signedBeforeInvalidity_Swapped(signingTime, invalidityDate) ==
    ~IsZero(signingTime) /\ ~IsZero(invalidityDate) /\ Before(invalidityDate, signingTime)

\* mutant: the signing time is not tested for being set
signedBeforeInvalidity_UnsetSigningTime(signingTime, invalidityDate) ==
    ~IsZero(invalidityDate) /\ Before(signingTime, invalidityDate)

\* mutant: a signing time at the invalidity date counts as before it
signedBeforeInvalidity_NotAfter(signingTime, invalidityDate) ==
    ~IsZero(signingTime) /\ ~IsZero(invalidityDate) /\ ~After(signingTime, invalidityDate)

\* signing time set, invalidity date set, signing time before the invalidity date
signedBeforeInvalidity(signingTime, invalidityDate) ==
    ~IsZero(signingTime) /\ ~IsZero(invalidityDate) /\ Before(signingTime, invalidityDate)

\* mutant: the later entry in merge order always replaces the earlier one
replacesLatest_LastInOrder(latest, entry) == TRUE

\* mutant: an entry with the timestamp of the latest one replaces it
replacesLatest_NotEarlier(latest, entry) ==
    latest = NilEntry \/ ~Before(entry.RevocationTime, latest.RevocationTime)

\* the guard that replaces latestTempRevokedEntry
replacesLatest(latest, entry) ==
    latest = NilEntry \/ Before(latest.RevocationTime, entry.RevocationTime)

\* a reason code of the switch's first case
isTemporaryReason(code) ==
    code = reasonCodeCertificateHold \/ code = reasonCodeRemoveFromCRL

\* the verdict after the loop
latestIsHold(latest) ==
    latest # NilEntry /\ latest.ReasonCode = reasonCodeCertificateHold

RECURSIVE revocationLoop_ParsesEveryEntry(_, _, _, _, _)
\* mutant: the extensions of an entry are parsed before its serial number is
\* compared
revocationLoop_ParsesEveryEntry(entries, c, signingTime, url, latest) ==
    IF entries = <<>>
    THEN IF latestIsHold(latest)
         THEN [result |-> ServerResult(ResultRevoked, url, NilErr), err |-> NilErr]
         ELSE [result |-> ServerResult(ResultOK, url, NilErr), err |-> NilErr]
    ELSE LET revocationEntry == Head(entries)
             extensions == parseEntryExtensions(revocationEntry)
         IN  IF extensions.err # NilErr
             THEN [result |-> NilResult, err |-> extensions.err]
             ELSE IF revocationEntry.SerialNumber # c.SerialNumber
             THEN revocationLoop_ParsesEveryEntry(Tail(entries), c, signingTime, url, latest)
             ELSE IF signedBeforeInvalidity(signingTime, extensions.invalidityDate)
             THEN [result |-> ServerResult(ResultOK, url, NilErr), err |-> NilErr]
             ELSE IF isTemporaryReason(revocationEntry.ReasonCode)
             THEN revocationLoop_ParsesEveryEntry(Tail(entries), c, signingTime, url,
                                  IF replacesLatest(latest, revocationEntry)
                                  THEN revocationEntry ELSE latest)
             ELSE [result |-> ServerResult(ResultRevoked, url, NilErr), err |-> NilErr]

RECURSIVE revocationLoop(_, _, _, _, _)
\* the loop over the merged entries from a position, with latestTempRevokedEntry
revocationLoop(entries, c, signingTime, url, latest) ==
    IF entries = <<>>
    THEN IF latestIsHold(latest)
         THEN [result |-> ServerResult(ResultRevoked, url, NilErr), err |-> NilErr]
         ELSE [result |-> ServerResult(ResultOK, url, NilErr), err |-> NilErr]
    ELSE LET revocationEntry == Head(entries) IN
         IF revocationEntry.SerialNumber = c.SerialNumber
         THEN LET extensions == parseEntryExtensions(revocationEntry) IN
              IF extensions.err # NilErr
              THEN [result |-> NilResult, err |-> extensions.err]
              ELSE IF signedBeforeInvalidity(signingTime, extensions.invalidityDate)
              THEN [result |-> ServerResult(ResultOK, url, NilErr), err |-> NilErr]
              ELSE IF isTemporaryReason(revocationEntry.ReasonCode)
              THEN revocationLoop(Tail(entries), c, signingTime, url,
                                  IF replacesLatest(latest, revocationEntry)
                                  THEN revocationEntry ELSE latest)
              ELSE [result |-> ServerResult(ResultRevoked, url, NilErr), err |-> NilErr]
         ELSE revocationLoop(Tail(entries), c, signingTime, url, latest)

checkRevocation(c, b, signingTime, url) ==
    IF c = NilCert
    THEN [result |-> NilResult, err |-> <<"certificate cannot be nil">>]
    ELSE IF b = NilBundle
    THEN [result |-> NilResult, err |-> <<"CRL bundle cannot be nil">>]
    ELSE IF b.BaseCRL = NilCRL
    THEN [result |-> NilResult, err |-> <<"baseCRL cannot be nil">>]
    ELSE revocationLoop(revocationListIter(b), c, signingTime, url, NilEntry)

(***************************************************************************)
(* validateCRL and validate                                                *)
(***************************************************************************)
\* x509.RevocationList.CheckSignatureFrom: nil when the issuer signed the CRL
CheckSignatureFrom(crl, parent) ==
    IF crl.Signer = parent.Subject THEN NilErr
    ELSE <<"crypto/x509: signature verification failure">>

RECURSIVE unsupportedCriticalExtension_IndicatorNotExempt(_)
\* mutant: the case of the delta CRL indicator is missing from the switch
unsupportedCriticalExtension_IndicatorNotExempt(extensions) ==
    IF extensions = <<>> THEN NilExtension
    ELSE LET ext == Head(extensions) IN
         IF ext.Id = oidIssuingDistributionPoint
         THEN unsupportedCriticalExtension_IndicatorNotExempt(Tail(extensions))
         ELSE IF ext.Critical THEN ext
         ELSE unsupportedCriticalExtension_IndicatorNotExempt(Tail(extensions))

RECURSIVE unsupportedCriticalExtension(_)
\* the loop over crl.Extensions: the first extension it rejects, or nil
unsupportedCriticalExtension(extensions) ==
    IF extensions = <<>> THEN NilExtension
    ELSE LET ext == Head(extensions) IN
         IF ext.Id = oidIssuingDistributionPoint
         THEN unsupportedCriticalExtension(Tail(extensions))
         ELSE IF ext.Id = oidDeltaCRLIndicator
         THEN unsupportedCriticalExtension(Tail(extensions))
         ELSE IF ext.Critical THEN ext
         ELSE unsupportedCriticalExtension(Tail(extensions))

\* mutant: the next-update time is not compared with the current time
isExpired_Never(t, nextUpdate) == FALSE

\* mutant: a CRL is rejected at the instant of its next-update time
isExpired_AtNextUpdate(t, nextUpdate) == t >= nextUpdate

\* now.After(crl.NextUpdate)
isExpired(t, nextUpdate) == After(t, nextUpdate)

\* validateCRL at the instant t that time.Now() returns
validateCRL(crl, parent, t) ==
    IF CheckSignatureFrom(crl, parent) # NilErr
    THEN <<"CRL is not signed by CA", parent.Subject>> \o CheckSignatureFrom(crl, parent)
    ELSE IF IsZero(crl.NextUpdate)
    THEN <<"CRL NextUpdate is not set">>
    ELSE IF isExpired(t, crl.NextUpdate)
    THEN <<"expired CRL", t, crl.NextUpdate>>
    ELSE IF unsupportedCriticalExtension(crl.Extensions) # NilExtension
    THEN <<"unsupported critical extension found in CRL",
           unsupportedCriticalExtension(crl.Extensions).Id>>
    ELSE NilErr

\* mutant: a delta CRL with the number of the base CRL is let through
deltaNumberNotGreater_Strict(deltaNumber, baseNumber) == deltaNumber < baseNumber

\* deltaCRL.Number.Cmp(baseCRL.Number) <= 0
deltaNumberNotGreater(deltaNumber, baseNumber) == deltaNumber <= baseNumber

\* minimumBaseCRLNumber.Cmp(baseCRL.Number) > 0
indicatorExceedsBase(minimumBaseCRLNumber, baseNumber) == minimumBaseCRLNumber > baseNumber

\* the delta CRL indicator check of validate
checkDeltaCRLIndicator(deltaCRL, baseCRL) ==
    LET extension == FindExtensionByOID(deltaCRL.Extensions, oidDeltaCRLIndicator) IN
    IF extension = NilExtension
    THEN <<"delta CRL indicator extension is not found">>
    ELSE LET r == ReadASN1Integer(extension.Value) IN
         IF ~r.ok
         THEN <<"failed to parse delta CRL indicator extension">>
         ELSE IF indicatorExceedsBase(r.int, baseCRL.Number)
         THEN <<"delta CRL indicator is not less than or equal to the base CRL number",
                r.int, baseCRL.Number>>
         ELSE NilErr

\* validate; t is the pair of instants that time.Now() returns in the validateCRL
\* of the base CRL and in the validateCRL of the delta CRL
validate(b, parent, t) ==
    LET baseErr == validateCRL(b.BaseCRL, parent, t[1]) IN
    IF baseErr # NilErr THEN <<"failed to validate base CRL">> \o baseErr
    ELSE IF b.DeltaCRL = NilCRL THEN NilErr
    ELSE LET deltaErr == validateCRL(b.DeltaCRL, parent, t[2]) IN
         IF deltaErr # NilErr THEN <<"failed to validate delta CRL">> \o deltaErr
         ELSE IF deltaNumberNotGreater(b.DeltaCRL.Number, b.BaseCRL.Number)
         THEN <<"delta CRL number is not greater than the base CRL number",
                b.DeltaCRL.Number, b.BaseCRL.Number>>
         ELSE checkDeltaCRLIndicator(b.DeltaCRL, b.BaseCRL)

\* mutant: the distribution points are not counted
Supported_AnyCertificate(c) == c # NilCert

\* Supported
Supported(c) == c # NilCert /\ Len(c.CRLDistributionPoints) > 0

(***************************************************************************)
(* Inputs: certificates, CRLs, revocation entries, bundles.                *)
(***************************************************************************)
\* an extension this package does not know (certificateIssuer, RFC 5280 5.3.3)
oidCertificateIssuer == <<2, 5, 29, 29>>

SigningTimes == {ZeroTime, 1, 2}
RevocationTimes == {1, 2}
Nows == {1, 2}
\* keyCompromise, certificateHold, removeFromCRL
ReasonCodes == {1, reasonCodeCertificateHold, reasonCodeRemoveFromCRL}

SeqsUpTo(S, n) == UNION {[1..k -> S] : k \in 0..n}

InvalidityDateExt(d) == Extension(oidInvalidityDate, FALSE, <<GeneralizedTime(d)>>)
MalformedInvalidityDateExt == Extension(oidInvalidityDate, FALSE, <<Garbage>>)
TrailingInvalidityDateExt(d) ==
    Extension(oidInvalidityDate, FALSE, <<GeneralizedTime(d), Garbage>>)
OtherExt(critical) == Extension(oidCertificateIssuer, critical, <<Garbage>>)

Entry(serial, time, reason, exts) ==
    [SerialNumber |-> serial, RevocationTime |-> time, ReasonCode |-> reason,
     Extensions |-> exts]

CertSerial == 42
OtherSerial == 43

\* entries of the certificate whose extensions parse: every reason and time
PlainEntries ==
    {Entry(CertSerial, t, r, x) : t \in RevocationTimes, r \in ReasonCodes,
        x \in {<<>>, <<InvalidityDateExt(1)>>, <<InvalidityDateExt(2)>>,
              <<InvalidityDateExt(3)>>}}

\* extension lists that fail to parse, or parse in a way of their own
OddExtLists ==
    {<<MalformedInvalidityDateExt>>, <<TrailingInvalidityDateExt(2)>>,
     <<OtherExt(TRUE)>>, <<OtherExt(FALSE)>>,
     <<InvalidityDateExt(2), OtherExt(TRUE)>>,
     <<InvalidityDateExt(2), InvalidityDateExt(1)>>,
     <<InvalidityDateExt(ZeroTime)>>}

OddEntries ==
    {Entry(CertSerial, 1, r, x) : r \in {1, reasonCodeCertificateHold}, x \in OddExtLists}

\* entries of another certificate
ForeignEntries ==
    {Entry(OtherSerial, 1, 1, x) : x \in {<<>>, <<OtherExt(TRUE)>>}}
    \cup {Entry(OtherSerial, 2, reasonCodeCertificateHold, <<MalformedInvalidityDateExt>>),
          Entry(OtherSerial, 2, reasonCodeRemoveFromCRL, <<InvalidityDateExt(3)>>)}

ResolveEntries == PlainEntries \cup OddEntries \cup ForeignEntries

CA == [Subject |-> "CA"]

CRL(signer, nextUpdate, number, exts, entries) ==
    [Signer |-> signer, NextUpdate |-> nextUpdate, Number |-> number,
     Extensions |-> exts, RevokedCertificateEntries |-> entries]

DeltaCRLIndicatorExt(n) == Extension(oidDeltaCRLIndicator, TRUE, <<Integer(n)>>)

\* a base CRL and a delta CRL that validate passes
GoodBaseCRL(entries) == CRL("CA", 2, 1, <<>>, entries)
GoodDeltaCRL(entries) == CRL("CA", 2, 2, <<DeltaCRLIndicatorExt(1)>>, entries)

Bundle(base, delta) == [BaseCRL |-> base, DeltaCRL |-> delta]

\* the first k entries as the base CRL, the rest as the delta CRL (or no delta CRL)
SplitBundle(s, k, withDelta) ==
    Bundle(GoodBaseCRL(SubSeq(s, 1, k)),
           IF withDelta THEN GoodDeltaCRL(SubSeq(s, k + 1, Len(s))) ELSE NilCRL)

\* every split of up to MaxEntries entries into a base CRL and an optional delta CRL
IsResolveBundle(b) ==
    \E n \in 0..MaxEntries : \E s \in [1..n -> ResolveEntries] :
        \/ b = SplitBundle(s, n, FALSE)
        \/ \E k \in 0..n : b = SplitBundle(s, k, TRUE)

URL(i) == <<"http://crl.example/", i>>
\* the distribution-point lists: up to MaxURLs different URLs, and one URL twice
URLLists ==
    {[i \in 1..n |-> URL(i)] : n \in 0..MaxURLs} \cup {<<URL(1), URL(1)>>}

FreshestCRLExt == Extension(oidFreshestCRL, FALSE, <<Garbage>>)

Cert(urls, exts) ==
    [SerialNumber |-> CertSerial, CRLDistributionPoints |-> urls, Extensions |-> exts]

TheFetcher == [nil |-> "no"]

(***************************************************************************)
(* SpecResolve: checkRevocation applied to every bundle of IsResolveBundle . *)
(***************************************************************************)
InitResolve ==
    /\ cert = Cert(<<URL(1)>>, <<>>)
    /\ issuer = CA
    /\ opts \in [Fetcher : {TheFetcher}, SigningTime : SigningTimes]
    /\ now = <<1, 1>>
    /\ pc = "checkRevocation"
    /\ idx = 1
    /\ crlURL = URL(1)
    /\ IsResolveBundle(bundle)
    /\ serverResults = <<>>
    /\ lastErr = NilErr
    /\ fetchLog = <<>>
    /\ ret = NilResult

CheckRevocationCall ==
    /\ pc = "checkRevocation"
    /\ ret' = checkRevocation(cert, bundle, opts.SigningTime, crlURL)
    /\ pc' = "checked"
    /\ UNCHANGED <<cert, issuer, opts, now, idx, crlURL, bundle, serverResults,
                   lastErr, fetchLog>>

NextResolve == CheckRevocationCall

SpecResolve == InitResolve /\ [][NextResolve]_vars

(***************************************************************************)
(* Inputs of CertCheckStatus: what the fetcher may return.                 *)
(***************************************************************************)
IssuingDistributionPointExt == Extension(oidIssuingDistributionPoint, TRUE, <<Garbage>>)
MalformedDeltaCRLIndicatorExt == Extension(oidDeltaCRLIndicator, TRUE, <<Garbage>>)

\* the same two extensions, not marked critical
OptionalIssuingDistributionPointExt ==
    Extension(oidIssuingDistributionPoint, FALSE, <<Garbage>>)
OptionalDeltaCRLIndicatorExt(n) == Extension(oidDeltaCRLIndicator, FALSE, <<Integer(n)>>)

CRLExtLists ==
    {<<>>, <<IssuingDistributionPointExt>>, <<MalformedDeltaCRLIndicatorExt>>,
     <<OtherExt(TRUE)>>, <<OtherExt(FALSE)>>,
     <<OptionalIssuingDistributionPointExt>>, <<OptionalDeltaCRLIndicatorExt(1)>>,
     <<IssuingDistributionPointExt, OtherExt(TRUE)>>}
    \cup {<<DeltaCRLIndicatorExt(n)>> : n \in 1..MaxNumber}

\* CRLs without entries: every signer, next update, number and extension list
HeaderCRLs ==
    {CRL(signer, nextUpdate, number, exts, <<>>) :
        signer \in {"CA", "Mallory"}, nextUpdate \in {ZeroTime, 1, 2},
        number \in 1..MaxNumber, exts \in CRLExtLists}

\* bundles that differ in what validate reads
HeaderBundles ==
    {Bundle(base, NilCRL) : base \in HeaderCRLs}
    \cup {Bundle(CRL("CA", 2, number, <<>>, <<>>), delta) :
            number \in 1..MaxNumber, delta \in HeaderCRLs}

\* entries the fetched CRLs hold
FetchEntries ==
    {Entry(CertSerial, 1, 1, <<>>),
     Entry(CertSerial, 1, 1, <<InvalidityDateExt(2)>>),
     Entry(CertSerial, 1, 1, <<OtherExt(TRUE)>>),
     Entry(CertSerial, 1, reasonCodeCertificateHold, <<>>),
     Entry(CertSerial, 1, reasonCodeCertificateHold, <<InvalidityDateExt(2)>>),
     Entry(CertSerial, 2, reasonCodeRemoveFromCRL, <<>>),
     Entry(CertSerial, 1, reasonCodeRemoveFromCRL, <<InvalidityDateExt(1)>>),
     Entry(CertSerial, 1, reasonCodeRemoveFromCRL, <<MalformedInvalidityDateExt>>),
     Entry(CertSerial, 1, 1, <<TrailingInvalidityDateExt(2)>>),
     Entry(OtherSerial, 1, 1, <<>>)}

\* bundles that validate passes and that differ in what checkRevocation reads
EntryBundles ==
    {Bundle(GoodBaseCRL(base), delta) :
        base \in SeqsUpTo(FetchEntries, 1),
        delta \in {NilCRL} \cup {GoodDeltaCRL(d) : d \in SeqsUpTo(FetchEntries, 1)}}

FetchBundles == HeaderBundles \cup EntryBundles

FetchErrors == {<<"connection refused">>, <<"context canceled">>}

Certs ==
    {NilCert} \cup
    {Cert(urls, exts) : urls \in URLLists,
                        exts \in {<<>>, <<FreshestCRLExt>>}}

(***************************************************************************)
(* CertCheckStatus                                                         *)
(***************************************************************************)
CertRevocationResult(result, results) ==
    [Result |-> result, ServerResults |-> results,
     RevocationMethod |-> RevocationMethodCRL]

hasFreshestCRLInCertificate(c) ==
    FindExtensionByOID(c.Extensions, oidFreshestCRL) # NilExtension

\* mutant: the check is left out
freshestCRLUnsupported_Never(c, b) == FALSE

\* the condition of the freshest-CRL check in the loop
freshestCRLUnsupported(c, b) == hasFreshestCRLInCertificate(c) /\ b.DeltaCRL = NilCRL

\* mutant: the fetcher is not tested
fetcherMissing_Never(o) == FALSE

\* opts.Fetcher == nil
fetcherMissing(o) == o.Fetcher = NilFetcher

\* mutant: the Revoked result is appended to the results collected so far
revokedReturn_Appended(crlResult) ==
    CertRevocationResult(ResultRevoked, Append(serverResults, crlResult))

\* the result returned when a URL's CRL revokes the certificate
revokedReturn(crlResult) == CertRevocationResult(ResultRevoked, <<crlResult>>)

\* mutant: the distribution points are visited from the last to the first
nextURL_Reversed ==
    cert.CRLDistributionPoints[Len(cert.CRLDistributionPoints) - idx]

\* the URL the loop visits next
nextURL == cert.CRLDistributionPoints[idx + 1]

Init ==
    /\ cert \in Certs
    /\ issuer = CA
    /\ opts \in [Fetcher : {NilFetcher, TheFetcher}, SigningTime : SigningTimes]
    /\ now \in {<<t, t>> : t \in Nows}
    /\ pc = "start"
    /\ idx = 0
    /\ crlURL = NoURL
    /\ bundle = NilBundle
    /\ serverResults = <<>>
    /\ lastErr = NilErr
    /\ fetchLog = <<>>
    /\ ret = NilResult

\* mutant: the Unknown result is appended to the results collected so far
ReturnUnknown_KeepsResults(url, err) ==
    /\ lastErr' = err
    /\ ret' = CertRevocationResult(ResultUnknown,
                  Append(serverResults, ServerResult(ResultUnknown, url, err)))
    /\ pc' = "done"

\* the return of lines 173-185, after a break with lastErr set
ReturnUnknown(url, err) ==
    /\ lastErr' = err
    /\ ret' = CertRevocationResult(ResultUnknown, <<ServerResult(ResultUnknown, url, err)>>)
    /\ pc' = "done"

\* !Supported(cert): CRL not enabled for this certificate
NotSupported ==
    /\ pc = "start"
    /\ ~Supported(cert)
    /\ ret' = CertRevocationResult(ResultNonRevokable,
                  <<ServerResult(ResultNonRevokable, NoURL, <<"CRL is not supported">>)>>)
    /\ pc' = "done"
    /\ UNCHANGED <<cert, issuer, opts, now, idx, crlURL, bundle, serverResults,
                   lastErr, fetchLog>>

\* opts.Fetcher == nil
FetcherNil ==
    /\ pc = "start"
    /\ Supported(cert)
    /\ fetcherMissing(opts)
    /\ ret' = CertRevocationResult(ResultUnknown,
                  <<ServerResult(ResultUnknown, NoURL, <<"CRL fetcher cannot be nil">>)>>)
    /\ pc' = "done"
    /\ UNCHANGED <<cert, issuer, opts, now, idx, crlURL, bundle, serverResults,
                   lastErr, fetchLog>>

\* the declarations before the loop
BeginLoop ==
    /\ pc = "start"
    /\ Supported(cert)
    /\ ~fetcherMissing(opts)
    /\ serverResults' = <<>>
    /\ lastErr' = NilErr
    /\ crlURL' = NoURL
    /\ pc' = "loop"
    /\ UNCHANGED <<cert, issuer, opts, now, idx, bundle, fetchLog, ret>>

\* the instants the two validateCRL calls after a fetch may read from the clock:
\* time passes while the check runs, and never goes back
LaterNows == {t \in Nows \X Nows : now[2] <= t[1] /\ t[1] <= t[2]}

\* opts.Fetcher.Fetch returns a bundle
FetchBundle ==
    /\ pc = "loop"
    /\ idx < Len(cert.CRLDistributionPoints)
    /\ crlURL' = nextURL
    /\ idx' = idx + 1
    /\ fetchLog' = Append(fetchLog, nextURL)
    /\ bundle' \in FetchBundles
    /\ now' \in LaterNows
    /\ pc' = "fetched"
    /\ UNCHANGED <<cert, issuer, opts, serverResults, lastErr, ret>>

\* opts.Fetcher.Fetch returns an error: break, return Unknown
FetchFail ==
    /\ pc = "loop"
    /\ idx < Len(cert.CRLDistributionPoints)
    /\ crlURL' = nextURL
    /\ idx' = idx + 1
    /\ fetchLog' = Append(fetchLog, nextURL)
    /\ bundle' = NilBundle
    /\ now' \in LaterNows
    /\ \E err \in FetchErrors :
          ReturnUnknown(nextURL, <<"failed to download CRL from", nextURL>> \o err)
    /\ UNCHANGED <<cert, issuer, opts, serverResults>>

\* hasFreshestCRLInCertificate && bundle.DeltaCRL == nil: break, return Unknown
FreshestCRLUnsupported ==
    /\ pc = "fetched"
    /\ freshestCRLUnsupported(cert, bundle)
    /\ ReturnUnknown(crlURL,
          <<"freshest CRL from certificate extension is not supported">>)
    /\ UNCHANGED <<cert, issuer, opts, now, idx, crlURL, bundle, serverResults, fetchLog>>

\* validate fails: break, return Unknown
ValidateFail ==
    /\ pc = "fetched"
    /\ ~freshestCRLUnsupported(cert, bundle)
    /\ validate(bundle, issuer, now) # NilErr
    /\ ReturnUnknown(crlURL,
          <<"failed to validate CRL from", crlURL>> \o validate(bundle, issuer, now))
    /\ UNCHANGED <<cert, issuer, opts, now, idx, crlURL, bundle, serverResults, fetchLog>>

\* checkRevocation fails: break, return Unknown
CheckRevocationFail ==
    /\ pc = "fetched"
    /\ ~freshestCRLUnsupported(cert, bundle)
    /\ validate(bundle, issuer, now) = NilErr
    /\ LET r == checkRevocation(cert, bundle, opts.SigningTime, crlURL) IN
          /\ r.err # NilErr
          /\ ReturnUnknown(crlURL,
                <<"failed to check revocation status from", crlURL>> \o r.err)
    /\ UNCHANGED <<cert, issuer, opts, now, idx, crlURL, bundle, serverResults, fetchLog>>

\* crlResult.Result == result.ResultRevoked: return Revoked with this result alone
ReturnRevoked ==
    /\ pc = "fetched"
    /\ ~freshestCRLUnsupported(cert, bundle)
    /\ validate(bundle, issuer, now) = NilErr
    /\ LET r == checkRevocation(cert, bundle, opts.SigningTime, crlURL) IN
          /\ r.err = NilErr
          /\ r.result.Result = ResultRevoked
          /\ ret' = revokedReturn(r.result)
    /\ pc' = "done"
    /\ UNCHANGED <<cert, issuer, opts, now, idx, crlURL, bundle, serverResults,
                   lastErr, fetchLog>>

\* serverResults = append(serverResults, crlResult), and the loop goes on
AppendResult ==
    /\ pc = "fetched"
    /\ ~freshestCRLUnsupported(cert, bundle)
    /\ validate(bundle, issuer, now) = NilErr
    /\ LET r == checkRevocation(cert, bundle, opts.SigningTime, crlURL) IN
          /\ r.err = NilErr
          /\ r.result.Result # ResultRevoked
          /\ serverResults' = Append(serverResults, r.result)
    /\ pc' = "loop"
    /\ UNCHANGED <<cert, issuer, opts, now, idx, crlURL, bundle, lastErr, fetchLog, ret>>

\* the loop ends with lastErr nil: return OK with the collected results
ReturnOK ==
    /\ pc = "loop"
    /\ idx = Len(cert.CRLDistributionPoints)
    /\ lastErr = NilErr
    /\ ret' = CertRevocationResult(ResultOK, serverResults)
    /\ pc' = "done"
    /\ UNCHANGED <<cert, issuer, opts, now, idx, crlURL, bundle, serverResults,
                   lastErr, fetchLog>>

Next ==
    \/ NotSupported
    \/ FetcherNil
    \/ BeginLoop
    \/ FetchBundle
    \/ FetchFail
    \/ FreshestCRLUnsupported
    \/ ValidateFail
    \/ CheckRevocationFail
    \/ ReturnRevoked
    \/ AppendResult
    \/ ReturnOK

Spec == Init /\ [][Next]_vars

(***************************************************************************)
(* What the claims speak of, stated without the operators of the code.     *)
(***************************************************************************)
\* the entries of a bundle in merge order: base entries, then delta entries
MergeOrder(b) ==
    IF b.DeltaCRL = NilCRL THEN b.BaseCRL.RevokedCertificateEntries
    ELSE b.BaseCRL.RevokedCertificateEntries \o b.DeltaCRL.RevokedCertificateEntries

\* the positions in merge order of the entries for the certificate's serial number
MatchingPositions(b, c) ==
    {i \in 1..Len(MergeOrder(b)) : MergeOrder(b)[i].SerialNumber = c.SerialNumber}

IsHold(e) == e.ReasonCode = 6
IsRemove(e) == e.ReasonCode = 8
IsPermanent(e) == e.ReasonCode \notin {6, 8}

\* the entry's extensions parse
ParsesOK(e) == parseEntryExtensions(e).err = NilErr

\* the entry's extensions parse to an invalidity date after a signing time that is set
InvalidityAfterSigning(e, signingTime) ==
    /\ ParsesOK(e)
    /\ signingTime # 0
    /\ parseEntryExtensions(e).invalidityDate > signingTime

\* the certificate's distribution points
urlsOf(c) == IF c = NilCert THEN <<>> ELSE c.CRLDistributionPoints

\* the loop has processed a bundle, which the state still holds
Visited == pc \in {"loop", "done"} /\ idx >= 1 /\ bundle # NilBundle

\* the fetcher was called once for each of the first idx URLs, in order, and no more
FetchedUpToIdx == fetchLog = SubSeq(urlsOf(cert), 1, idx)

\* the bundle passes the freshest-CRL check and validate
BundleAccepted ==
    ~(cert.Extensions # <<>> /\ bundle.DeltaCRL = NilCRL)
    /\ validate(bundle, issuer, now) = NilErr

(***************************************************************************)
(* C1                                                                      *)
(***************************************************************************)
HasPermanentEntry(b, c) ==
    \E i \in MatchingPositions(b, c) : IsPermanent(MergeOrder(b)[i])

\* the walk of checkRevocation reaches a permanent entry: no matching entry up to
\* it fails to parse or carries an invalidity date after the signing time
ReachesPermanentEntry(b, c, signingTime) ==
    \E i \in MatchingPositions(b, c) :
        /\ IsPermanent(MergeOrder(b)[i])
        /\ \A j \in MatchingPositions(b, c) :
              j <= i => /\ ParsesOK(MergeOrder(b)[j])
                        /\ ~InvalidityAfterSigning(MergeOrder(b)[j], signingTime)

\* C1 as claimed: once a visited URL's bundle holds an entry for the certificate's
\* serial number with a reason code other than 6 and 8, CertCheckStatus returns
\* Revoked and has fetched no URL after that one (stated for a bundle that passes
\* validation and whose matching entries parse).
C1_AsClaimed ==
    (Visited /\ HasPermanentEntry(bundle, cert)
        /\ (\A i \in MatchingPositions(bundle, cert) : ParsesOK(MergeOrder(bundle)[i]))
        /\ (pc = "done" => BundleAccepted)) =>
        (pc = "done" /\ ret.Result = ResultRevoked /\ FetchedUpToIdx)

\* C1 amended: once a visited URL's bundle passes the freshest-CRL check and
\* validation, and the walk reaches an entry for the certificate's serial number
\* with a reason code other than 6 and 8 (no matching entry up to it fails to
\* parse or carries an invalidity date after a set signing time), CertCheckStatus
\* returns Revoked and has fetched no URL after that one.
C1_RevokedByPermanentEntry ==
    (Visited /\ ReachesPermanentEntry(bundle, cert, opts.SigningTime)
        /\ (pc = "done" => BundleAccepted)) =>
        (pc = "done" /\ ret.Result = ResultRevoked /\ FetchedUpToIdx)

\* a permanent entry revoked the certificate at a URL that is not the last one
C1_Witness ==
    /\ pc = "done"
    /\ Visited
    /\ BundleAccepted
    /\ ReachesPermanentEntry(bundle, cert, opts.SigningTime)
    /\ ret.Result = ResultRevoked
    /\ idx < Len(cert.CRLDistributionPoints)
    /\ FetchedUpToIdx

(***************************************************************************)
(* checkRevocation's answer in SpecResolve                                 *)
(***************************************************************************)
\* the entries for the certificate's serial number, in merge order
MatchingEntries(b, c) ==
    SelectSeq(MergeOrder(b), LAMBDA e : e.SerialNumber = c.SerialNumber)

\* what checkRevocation returned: "error", or the result's status
Verdict == IF ret.err # NilErr THEN "error" ELSE ret.result.Result

\* the entry does not end the walk early: it parses and has no invalidity date
\* after a signing time that is set
Quiet(e, signingTime) == ParsesOK(e) /\ ~InvalidityAfterSigning(e, signingTime)

(***************************************************************************)
(* C2                                                                      *)
(***************************************************************************)
\* the two matching entries are a hold and a remove with a later timestamp
HoldThenLaterRemove(m, h, r) ==
    /\ IsHold(m[h])
    /\ IsRemove(m[r])
    /\ m[r].RevocationTime > m[h].RevocationTime

CarriesInvalidityDateAfter(e, t) ==
    /\ Cardinality({i \in 1..Len(e.Extensions) : e.Extensions[i].Id = <<2, 5, 29, 24>>}) = 1
    /\ \E i \in 1..Len(e.Extensions) :
          LET x == e.Extensions[i] IN
          /\ x.Id = <<2, 5, 29, 24>>
          /\ Len(x.Value) = 1
          /\ x.Value[1].tag = "GeneralizedTime"
          /\ x.Value[1].val > t

\* C3 as claimed: with the signing time set, if the first matching entry in merge
\* order carries an invalidity date after the signing time, checkRevocation
\* returns OK.
C3_AsClaimed ==
    (pc = "checked" /\ opts.SigningTime # 0) =>
        LET m == MatchingEntries(bundle, cert) IN
        (m # <<>> /\ CarriesInvalidityDateAfter(m[1], opts.SigningTime))
            => Verdict = ResultOK

\* C3 amended: with the signing time set, if the extensions of the first matching
\* entry in merge order parse without error to an invalidity date strictly after
\* the signing time, checkRevocation returns OK, whatever that entry's reason code
\* and whatever matching entries follow it.
C3_FirstEntryInvalidityDateGivesOK ==
    (pc = "checked" /\ opts.SigningTime # 0) =>
        LET m == MatchingEntries(bundle, cert) IN
        (m # <<>> /\ InvalidityAfterSigning(m[1], opts.SigningTime))
            => Verdict = ResultOK

\* a permanent first entry with a later invalidity date, then one more permanent
\* entry without: OK
C3_Witness ==
    /\ pc = "checked"
    /\ opts.SigningTime # 0
    /\ LET m == MatchingEntries(bundle, cert) IN
          /\ Len(m) = 2
          /\ IsPermanent(m[1])
          /\ InvalidityAfterSigning(m[1], opts.SigningTime)
          /\ IsPermanent(m[2])
          /\ m[2].Extensions = <<>>
    /\ Verdict = ResultOK

(***************************************************************************)
(* C4                                                                      *)
(***************************************************************************)
\* C4 as documented, for an entry that revokes for good: with the signing time
\* set, if an entry for the certificate with a reason code other than 6 and 8
\* carries an invalidity date and the signing time is after it, the certificate is
\* revoked (the extensions of every matching entry parse).
C4_AsDocumented ==
    (pc = "checked" /\ opts.SigningTime # 0) =>
        LET m == MatchingEntries(bundle, cert) IN
        ((\A i \in 1..Len(m) : ParsesOK(m[i]))
         /\ \E i \in 1..Len(m) :
               /\ IsPermanent(m[i])
               /\ parseEntryExtensions(m[i]).invalidityDate # 0
               /\ opts.SigningTime > parseEntryExtensions(m[i]).invalidityDate)
            => Verdict = ResultRevoked

(***************************************************************************)
(* CertCheckStatus's report in Spec                                        *)
(***************************************************************************)
\* what checkRevocation answers for the bundle at the URL the loop is at
Resolved == checkRevocation(cert, bundle, opts.SigningTime, crlURL)

\* the URL the loop is at
CurrentURL == urlsOf(cert)[idx]

\* a ServerResult, field by field
Report(status, url, err) ==
    [Result |-> status, Server |-> url, Error |-> err, RevocationMethod |-> "CRL"]

\* a CertRevocationResult, field by field
Overall(status, results) ==
    [Result |-> status, ServerResults |-> results, RevocationMethod |-> "CRL"]

(***************************************************************************)
(* C5                                                                      *)
(***************************************************************************)
\* C5: once the resolver reports Revoked for a URL's bundle, CertCheckStatus has
\* returned Revoked with one ServerResult, the Revoked result of that URL, and
\* has fetched no URL after it; the OK results of earlier URLs are not reported.
C5_RevokedReturnsAtOnce ==
    (Visited /\ (pc = "done" => BundleAccepted)
        /\ Resolved.err = NilErr /\ Resolved.result.Result = "Revoked") =>
        /\ pc = "done"
        /\ ret = Overall("Revoked", <<Report("Revoked", CurrentURL, <<>>)>>)
        /\ FetchedUpToIdx

\* Revoked at a URL that follows a URL with an OK result and precedes another URL
C5_Witness ==
    /\ pc = "done"
    /\ Visited
    /\ ret.Result = "Revoked"
    /\ Len(ret.ServerResults) = 1
    /\ Len(serverResults) >= 1
    /\ idx < Len(cert.CRLDistributionPoints)
    /\ Len(fetchLog) = idx

(***************************************************************************)
(* C6                                                                      *)
(***************************************************************************)
\* the fetch, the freshest-CRL check, validate or checkRevocation failed at the
\* URL the loop is at
FailedAtURL ==
    /\ pc \in {"loop", "done"}
    /\ idx >= 1
    /\ \/ bundle = NilBundle
       \/ ~BundleAccepted
       \/ Resolved.err # NilErr

\* the error of the failure at the URL the loop is at, wrapped as the loop wraps it
IsTriggeringError(err) ==
    IF bundle = NilBundle
    THEN \E e \in FetchErrors : err = <<"failed to download CRL from", CurrentURL>> \o e
    ELSE IF cert.Extensions # <<>> /\ bundle.DeltaCRL = NilCRL
    THEN err = <<"freshest CRL from certificate extension is not supported">>
    ELSE IF validate(bundle, issuer, now) # NilErr
    THEN err = <<"failed to validate CRL from", CurrentURL>> \o validate(bundle, issuer, now)
    ELSE err = <<"failed to check revocation status from", CurrentURL>> \o Resolved.err

\* C6: once a step fails at a URL, CertCheckStatus has returned Unknown with one
\* ServerResult (Unknown, that URL, the triggering error), having called the
\* fetcher once for each URL up to that one and for none after it; the OK results
\* of earlier URLs are not reported.
C6_ErrorReturnsUnknown ==
    FailedAtURL =>
        /\ pc = "done"
        /\ ret.Result = "Unknown"
        /\ Len(ret.ServerResults) = 1
        /\ ret.ServerResults[1].Result = "Unknown"
        /\ ret.ServerResults[1].Server = CurrentURL
        /\ IsTriggeringError(ret.ServerResults[1].Error)
        /\ ret.ServerResults[1].RevocationMethod = "CRL"
        /\ FetchedUpToIdx

\* validation fails at a URL that follows a URL with an OK result and precedes
\* another URL
C6_Witness ==
    /\ pc = "done"
    /\ FailedAtURL
    /\ bundle # NilBundle
    /\ validate(bundle, issuer, now) # NilErr
    /\ Len(serverResults) >= 1
    /\ idx < Len(cert.CRLDistributionPoints)
    /\ ret.Result = "Unknown"

(***************************************************************************)
(* C7                                                                      *)
(***************************************************************************)
\* the bundle of the URL the loop is at was fetched, validated and resolved to OK
PassedAtURL ==
    /\ idx >= 1
    /\ bundle # NilBundle
    /\ BundleAccepted
    /\ Resolved.err = NilErr
    /\ Resolved.result.Result = "OK"

\* one OK result for each of the first n URLs, in the certificate's order
OKResults(n) == [i \in 1..n |-> Report("OK", urlsOf(cert)[i], <<>>)]

\* C7: the loop goes on past a URL only if it was fetched, validated and resolved
\* to OK, with one OK result and one fetch for each URL so far, in order; and
\* CertCheckStatus returns OK exactly when this has happened for every URL of the
\* certificate, the results being the OK results of all URLs in order.
C7_OKIffEveryURLOK ==
    /\ (pc = "loop" /\ idx >= 1) =>
          (PassedAtURL /\ FetchedUpToIdx /\ serverResults = OKResults(idx))
    /\ (pc = "done" /\ ret.Result = "OK") =>
          /\ idx = Len(urlsOf(cert))
          /\ PassedAtURL
          /\ fetchLog = urlsOf(cert)
          /\ ret = Overall("OK", OKResults(Len(urlsOf(cert))))
    /\ (pc = "done" /\ idx = Len(urlsOf(cert)) /\ PassedAtURL) => ret.Result = "OK"

\* OK for a certificate with two different URLs
C7_Witness ==
    /\ pc = "done"
    /\ ret.Result = "OK"
    /\ Len(cert.CRLDistributionPoints) = 2
    /\ cert.CRLDistributionPoints[1] # cert.CRLDistributionPoints[2]
    /\ fetchLog = cert.CRLDistributionPoints
    /\ Len(ret.ServerResults) = 2

(***************************************************************************)
(* C8                                                                      *)
(***************************************************************************)
\* C8: for a certificate without distribution points the fetcher is never called
\* and CertCheckStatus returns NonRevokable (not applicable) with one explanatory
\* ServerResult, with or without a fetcher.
C8_NoURLsNotApplicable ==
    (cert # NilCert /\ Len(cert.CRLDistributionPoints) = 0) =>
        /\ fetchLog = <<>>
        /\ pc \in {"start", "done"}
        /\ pc = "done" =>
              ret = Overall("NonRevokable",
                            <<Report("NonRevokable", <<>>, <<"CRL is not supported">>)>>)

\* a certificate without distribution points, checked without a fetcher
C8_Witness ==
    /\ pc = "done"
    /\ cert # NilCert
    /\ Len(cert.CRLDistributionPoints) = 0
    /\ opts.Fetcher = NilFetcher
    /\ ret.Result = "NonRevokable"

(***************************************************************************)
(* C9                                                                      *)
(***************************************************************************)
\* C9: for a certificate with a distribution point and no fetcher configured,
\* the loop is never entered and CertCheckStatus returns Unknown with one
\* explanatory ServerResult.
C9_NoFetcherUnknown ==
    (cert # NilCert /\ Len(cert.CRLDistributionPoints) >= 1 /\ opts.Fetcher = NilFetcher) =>
        /\ fetchLog = <<>>
        /\ pc \in {"start", "done"}
        /\ pc = "done" =>
              ret = Overall("Unknown",
                            <<Report("Unknown", <<>>, <<"CRL fetcher cannot be nil">>)>>)

\* a certificate with two distribution points, checked without a fetcher
C9_Witness ==
    /\ pc = "done"
    /\ cert # NilCert
    /\ Len(cert.CRLDistributionPoints) = 2
    /\ opts.Fetcher = NilFetcher
    /\ ret.Result = "Unknown"

(***************************************************************************)
(* C10                                                                     *)
(***************************************************************************)
\* the positions of the delta CRL indicator extensions of a CRL
IndicatorPositions(crl) ==
    {i \in 1..Len(crl.Extensions) : crl.Extensions[i].Id = <<2, 5, 29, 27>>}

\* the first delta CRL indicator extension holds an integer greater than n
IndicatorGreaterThan(crl, n) ==
    \E i \in IndicatorPositions(crl) :
        /\ \A j \in IndicatorPositions(crl) : i <= j
        /\ Len(crl.Extensions[i].Value) > 0
        /\ crl.Extensions[i].Value[1].tag = "INTEGER"
        /\ crl.Extensions[i].Value[1].val > n

DeltaNumberTooSmall(b) == b.DeltaCRL.Number <= b.BaseCRL.Number
DeltaIndicatorMissing(b) == IndicatorPositions(b.DeltaCRL) = {}
DeltaIndicatorTooGreat(b) == IndicatorGreaterThan(b.DeltaCRL, b.BaseCRL.Number)

\* the bundle has a delta CRL that is inconsistent with its base CRL
DeltaInconsistent(b) ==
    /\ b.DeltaCRL # NilCRL
    /\ \/ DeltaNumberTooSmall(b)
       \/ DeltaIndicatorMissing(b)
       \/ DeltaIndicatorTooGreat(b)

\* C10: once a visited URL's bundle has a delta CRL that is inconsistent with its
\* base CRL, validate has failed for it and CertCheckStatus has returned Unknown
\* with the validation error.
C10_InconsistentDeltaUnknown ==
    (Visited /\ DeltaInconsistent(bundle)) =>
        /\ pc = "done"
        /\ validate(bundle, issuer, now) # NilErr
        /\ ret.Result = "Unknown"
        /\ Len(ret.ServerResults) = 1
        /\ ret.ServerResults[1].Error =
              <<"failed to validate CRL from", CurrentURL>> \o validate(bundle, issuer, now)

\* a bundle whose CRLs are each valid and whose delta CRL has the number of the
\* base CRL
C10_Witness ==
    /\ pc = "done"
    /\ Visited
    /\ validateCRL(bundle.BaseCRL, issuer, now[1]) = NilErr
    /\ bundle.DeltaCRL # NilCRL
    /\ validateCRL(bundle.DeltaCRL, issuer, now[2]) = NilErr
    /\ bundle.DeltaCRL.Number = bundle.BaseCRL.Number
    /\ ~DeltaIndicatorMissing(bundle)
    /\ ~DeltaIndicatorTooGreat(bundle)
    /\ ret.Result = "Unknown"

(***************************************************************************)
(* C11                                                                     *)
(***************************************************************************)
\* the CRL's next-update time is set and lies before the instant t
NextUpdatePassed(crl, t) == crl.NextUpdate # 0 /\ crl.NextUpdate < t

BaseExpired == NextUpdatePassed(bundle.BaseCRL, now[1])
DeltaExpired == bundle.DeltaCRL # NilCRL /\ NextUpdatePassed(bundle.DeltaCRL, now[2])

\* the certificate's freshest-CRL extension is met by the bundle's delta CRL
FreshestMet == ~(cert.Extensions # <<>> /\ bundle.DeltaCRL = NilCRL)

\* the error of validate for an expired base (which = "base") or delta CRL
ExpiredError(which, t, crl) ==
    <<"failed to validate CRL from", CurrentURL>> \o
    <<IF which = "base" THEN "failed to validate base CRL"
                        ELSE "failed to validate delta CRL">> \o
    <<"expired CRL", t, crl.NextUpdate>>

\* the returned error is the expired error of the base or of the delta CRL
ReturnsExpiredError ==
    /\ Len(ret.ServerResults) = 1
    /\ \/ ret.ServerResults[1].Error = ExpiredError("base", now[1], bundle.BaseCRL)
       \/ /\ bundle.DeltaCRL # NilCRL
          /\ ret.ServerResults[1].Error = ExpiredError("delta", now[2], bundle.DeltaCRL)

\* C11 as claimed: once the base or the delta CRL of a visited URL's bundle has a
\* next-update time that has passed, validation has failed with an expired error
\* and the overall status is Unknown (stated for CRLs that the issuer signed).
C11_AsClaimed ==
    (Visited /\ (BaseExpired \/ DeltaExpired)
        /\ bundle.BaseCRL.Signer = issuer.Subject
        /\ (bundle.DeltaCRL # NilCRL => bundle.DeltaCRL.Signer = issuer.Subject)) =>
        (pc = "done" /\ ret.Result = "Unknown" /\ ReturnsExpiredError)

\* C11, amended: once the base or the delta CRL of a visited URL's bundle has a
\* next-update time that has passed, the overall status is Unknown; the error is
\* the expired error of that CRL when its expiry check is reached: the bundle meets
\* the freshest-CRL check, the issuer signed the CRL and, for the delta CRL, the
\* base CRL validates.
C11_ExpiredCRLGivesUnknown ==
    (Visited /\ (BaseExpired \/ DeltaExpired)) =>
        /\ pc = "done"
        /\ ret.Result = "Unknown"
        /\ Len(ret.ServerResults) = 1
        /\ ret.ServerResults[1].Result = "Unknown"
        /\ (FreshestMet /\ BaseExpired /\ bundle.BaseCRL.Signer = issuer.Subject) =>
              ret.ServerResults[1].Error = ExpiredError("base", now[1], bundle.BaseCRL)
        /\ (DeltaExpired /\ bundle.DeltaCRL.Signer = issuer.Subject
                /\ validateCRL(bundle.BaseCRL, issuer, now[1]) = NilErr) =>
              ret.ServerResults[1].Error = ExpiredError("delta", now[2], bundle.DeltaCRL)

\* a delta CRL that expired between the validation of the base CRL and its own
C11_Witness ==
    /\ pc = "done"
    /\ Visited
    /\ validateCRL(bundle.BaseCRL, issuer, now[1]) = NilErr
    /\ DeltaExpired
    /\ ~NextUpdatePassed(bundle.DeltaCRL, now[1])
    /\ ret.Result = "Unknown"
    /\ ret.ServerResults[1].Error = ExpiredError("delta", now[2], bundle.DeltaCRL)

(***************************************************************************)
(* C12                                                                     *)
(***************************************************************************)
\* the certificate carries a freshest-CRL extension
CertHasFreshestCRL ==
    \E i \in 1..Len(cert.Extensions) : cert.Extensions[i].Id = <<2, 5, 29, 46>>

\* C12: once the bundle fetched for a URL has no delta CRL while the certificate
\* carries a freshest-CRL extension, CertCheckStatus has returned Unknown with the
\* freshest-CRL error for that URL, whatever validate and checkRevocation would
\* say of the bundle, and has fetched no URL after it.
C12_FreshestWithoutDeltaUnknown ==
    (Visited /\ CertHasFreshestCRL /\ bundle.DeltaCRL = NilCRL) =>
        /\ pc = "done"
        /\ ret = Overall("Unknown",
                   <<Report("Unknown", CurrentURL,
                       <<"freshest CRL from certificate extension is not supported">>)>>)
        /\ FetchedUpToIdx

\* a bundle without delta CRL that validate would reject, at a URL that follows a
\* URL with an OK result and precedes another URL
C12_Witness ==
    /\ pc = "done"
    /\ Visited
    /\ CertHasFreshestCRL
    /\ bundle.DeltaCRL = NilCRL
    /\ validate(bundle, issuer, now) # NilErr
    /\ Len(serverResults) >= 1
    /\ idx < Len(cert.CRLDistributionPoints)
    /\ ret.Result = "Unknown"

(***************************************************************************)
(* C13                                                                     *)
(***************************************************************************)
\* the CRLs that validate hands to validateCRL for the visited bundle, each with
\* the instant at which validateCRL reads the clock
ValidatedCRLs ==
    {<<bundle.BaseCRL, now[1]>>} \cup
    (IF bundle.DeltaCRL # NilCRL THEN {<<bundle.DeltaCRL, now[2]>>} ELSE {})

\* C13 as claimed: validateCRL accepts a CRL only if its next-update time is set
\* and strictly later than the current time; a CRL whose next-update time is
\* unset or not strictly later than the current time is rejected.
C13_AsClaimed ==
    Visited =>
        \A p \in ValidatedCRLs :
            /\ validateCRL(p[1], issuer, p[2]) = NilErr =>
                  (p[1].NextUpdate # 0 /\ p[1].NextUpdate > p[2])
            /\ (p[1].NextUpdate = 0 \/ p[1].NextUpdate <= p[2]) =>
                  validateCRL(p[1], issuer, p[2]) # NilErr

\* C13, amended: validateCRL accepts a CRL only if its next-update time is set
\* and not earlier than the current time; a correctly signed CRL is rejected as
\* unset when its next-update time is unset, as expired when it is strictly
\* earlier than the current time, and is not rejected for its next-update time
\* when that equals the current time.
C13_RejectsUnsetOrPastNextUpdate ==
    Visited =>
        \A p \in ValidatedCRLs :
            LET crl == p[1]
                t == p[2]
                err == validateCRL(crl, issuer, t)
            IN  /\ err = NilErr => (crl.NextUpdate # 0 /\ crl.NextUpdate >= t)
                /\ (crl.NextUpdate = 0 \/ crl.NextUpdate < t) => err # NilErr
                /\ crl.Signer = issuer.Subject =>
                      /\ crl.NextUpdate = 0 => err = <<"CRL NextUpdate is not set">>
                      /\ (crl.NextUpdate # 0 /\ crl.NextUpdate < t) =>
                            err = <<"expired CRL", t, crl.NextUpdate>>
                      /\ (crl.NextUpdate # 0 /\ crl.NextUpdate >= t) =>
                            (err = NilErr \/
                             err[1] = "unsupported critical extension found in CRL")

\* a bundle accepted with its delta CRL validated at the instant of the delta
\* CRL's next-update time, after the base CRL
C13_Witness ==
    /\ pc = "loop"
    /\ Visited
    /\ bundle.DeltaCRL # NilCRL
    /\ now[1] < now[2]
    /\ bundle.DeltaCRL.NextUpdate = now[2]
    /\ validate(bundle, issuer, now) = NilErr

(***************************************************************************)
(* C14                                                                     *)
(***************************************************************************)
\* every entry of the sequence has reason code certificateHold or removeFromCRL
AllTemporary(m) == \A i \in 1..Len(m) : m[i].ReasonCode \in {6, 8}

\* the position of the entry with the greatest revocation timestamp, the first in
\* merge order of those that share it (m is not empty)
LatestPosition(m) ==
    CHOOSE i \in 1..Len(m) :
        /\ \A j \in 1..Len(m) : m[j].RevocationTime <= m[i].RevocationTime
        /\ \A j \in 1..(i - 1) : m[j].RevocationTime < m[i].RevocationTime

LatestIsHold(m) == m # <<>> /\ IsHold(m[LatestPosition(m)])

\* C14 as claimed: when every matching entry is a certificateHold or a
\* removeFromCRL and none has an invalidity date after a set signing time,
\* checkRevocation returns Revoked exactly when the matching entry with the
\* greatest revocation timestamp, the first in merge order among equals, is a
\* certificateHold.
C14_AsClaimed ==
    pc = "checked" =>
        LET m == MatchingEntries(bundle, cert) IN
        (AllTemporary(m) /\
         \A i \in 1..Len(m) : ~InvalidityAfterSigning(m[i], opts.SigningTime)) =>
            (Verdict = "Revoked" <=> LatestIsHold(m))

\* C14, amended: when every matching entry is a certificateHold or a
\* removeFromCRL whose extensions parse, and none has an invalidity date after a
\* set signing time, checkRevocation returns Revoked if the matching entry with
\* the greatest revocation timestamp, the first in merge order among equals, is a
\* certificateHold, and OK otherwise.
C14_LatestTemporaryEntryDecides ==
    pc = "checked" =>
        LET m == MatchingEntries(bundle, cert) IN
        (AllTemporary(m) /\ \A i \in 1..Len(m) : Quiet(m[i], opts.SigningTime)) =>
            Verdict = (IF LatestIsHold(m) THEN "Revoked" ELSE "OK")

\* a hold in the base CRL and a removeFromCRL with the same timestamp in the delta
\* CRL: the hold stands
C14_Witness ==
    /\ pc = "checked"
    /\ bundle.DeltaCRL # NilCRL
    /\ Len(bundle.BaseCRL.RevokedCertificateEntries) = 1
    /\ LET m == MatchingEntries(bundle, cert) IN
          /\ Len(m) = 2
          /\ IsHold(m[1])
          /\ IsRemove(m[2])
          /\ m[1].RevocationTime = m[2].RevocationTime
          /\ Quiet(m[1], opts.SigningTime)
          /\ Quiet(m[2], opts.SigningTime)
    /\ Verdict = "Revoked"

(***************************************************************************)
(* C15                                                                     *)
(***************************************************************************)
\* the entry carries an invalidity date after the signing time, or else has a
\* reason code other than 6 and 8
Decisive(e, signingTime) == CarriesInvalidityDateAfter(e, signingTime) \/ IsPermanent(e)

\* the positions of the decisive entries among the matching entries
DecisivePositions(m, signingTime) ==
    {i \in 1..Len(m) : Decisive(m[i], signingTime)}

FirstDecisive(m, signingTime) ==
    CHOOSE i \in DecisivePositions(m, signingTime) :
        \A j \in DecisivePositions(m, signingTime) : i <= j

\* what the decisive entry gives
DecisiveVerdict(e, signingTime) ==
    IF CarriesInvalidityDateAfter(e, signingTime) THEN "OK" ELSE "Revoked"

\* C15 as claimed: with the signing time set, the result of checkRevocation is
\* that of the first entry in merge order (base CRL, then delta CRL) among the
\* matching ones that is decisive: OK for an invalidity date after the signing
\* time, otherwise Revoked for a reason code other than 6 and 8.
C15_AsClaimed ==
    (pc = "checked" /\ opts.SigningTime # 0) =>
        LET m == MatchingEntries(bundle, cert) IN
        DecisivePositions(m, opts.SigningTime) # {} =>
            Verdict = DecisiveVerdict(m[FirstDecisive(m, opts.SigningTime)],
                                      opts.SigningTime)

\* the walk ends at the entry: its extensions parse to an invalidity date after a
\* set signing time, or else it has a reason code other than 6 and 8
EndsWalk(e, signingTime) == InvalidityAfterSigning(e, signingTime) \/ IsPermanent(e)

\* C15, amended: the result of checkRevocation is that of the first entry in merge
\* order (base CRL, then delta CRL) among the matching ones that is decisive,
\* provided the extensions of every matching entry up to and including it parse:
\* OK for an invalidity date after the set signing time, otherwise Revoked for a
\* reason code other than 6 and 8; the matching entries after it have no effect,
\* not even when their extensions do not parse.
C15_FirstDecisiveEntryDecides ==
    pc = "checked" =>
        LET m == MatchingEntries(bundle, cert)
            st == opts.SigningTime
        IN  \A d \in 1..Len(m) :
                (/\ EndsWalk(m[d], st)
                 /\ \A j \in 1..(d - 1) : ~EndsWalk(m[j], st)
                 /\ \A j \in 1..d : ParsesOK(m[j])) =>
                    Verdict = (IF InvalidityAfterSigning(m[d], st) THEN "OK" ELSE "Revoked")

\* a permanent entry in the base CRL, then an entry in the delta CRL with an
\* invalidity date after the signing time: Revoked
C15_Witness ==
    /\ pc = "checked"
    /\ opts.SigningTime # 0
    /\ bundle.DeltaCRL # NilCRL
    /\ Len(bundle.BaseCRL.RevokedCertificateEntries) = 1
    /\ LET m == MatchingEntries(bundle, cert) IN
          /\ Len(m) = 2
          /\ IsPermanent(m[1])
          /\ Quiet(m[1], opts.SigningTime)
          /\ InvalidityAfterSigning(m[2], opts.SigningTime)
    /\ Verdict = "Revoked"

(***************************************************************************)
(* C16                                                                     *)
(***************************************************************************)
\* the entry without its invalidity date extensions
WithoutInvalidityDate(e) ==
    [e EXCEPT !.Extensions = SelectSeq(@, LAMBDA x : x.Id # <<2, 5, 29, 24>>)]

WithoutInvalidityDates(entries) ==
    [i \in 1..Len(entries) |-> WithoutInvalidityDate(entries[i])]

\* the CRL, and the bundle, with every invalidity date extension removed
StripCRL(crl) ==
    IF crl = NilCRL THEN NilCRL
    ELSE [crl EXCEPT !.RevokedCertificateEntries = WithoutInvalidityDates(@)]

StripBundle(b) == [BaseCRL |-> StripCRL(b.BaseCRL), DeltaCRL |-> StripCRL(b.DeltaCRL)]

\* the first matching entry's extensions parse to an invalidity date equal to the
\* signing time, which is set
FirstInvalidityAtSigningTime(m, signingTime) ==
    /\ m # <<>>
    /\ signingTime # 0
    /\ ParsesOK(m[1])
    /\ parseEntryExtensions(m[1]).invalidityDate = signingTime

\* with the signing time at the first matching entry's invalidity date, that
\* entry gives Revoked when it is permanent or a lone hold
NoShortCircuitAtInvalidityDate ==
    LET m == MatchingEntries(bundle, cert) IN
    FirstInvalidityAtSigningTime(m, opts.SigningTime) =>
        /\ IsPermanent(m[1]) => Verdict = "Revoked"
        /\ (Len(m) = 1 /\ IsHold(m[1])) => Verdict = "Revoked"

\* C16 as claimed: with the signing time unset, checkRevocation returns what it
\* returns for the bundle with every invalidity date extension removed; and with
\* the signing time equal to an entry's invalidity date the entry does not give OK.
C16_AsClaimed ==
    pc = "checked" =>
        /\ opts.SigningTime = 0 =>
              ret = checkRevocation(cert, StripBundle(bundle), opts.SigningTime, crlURL)
        /\ NoShortCircuitAtInvalidityDate

\* C16, amended: with the signing time unset, checkRevocation returns what it
\* returns for the bundle with every invalidity date extension removed, provided
\* the extensions of every matching entry parse, and an error when those of the
\* first matching entry do not; and with the signing time equal to an entry's
\* invalidity date the entry does not give OK.
C16_UnsetSigningTimeIgnoresInvalidityDates ==
    pc = "checked" =>
        LET m == MatchingEntries(bundle, cert) IN
        /\ (opts.SigningTime = 0 /\ \A i \in 1..Len(m) : ParsesOK(m[i])) =>
              ret = checkRevocation(cert, StripBundle(bundle), opts.SigningTime, crlURL)
        /\ (opts.SigningTime = 0 /\ m # <<>> /\ ~ParsesOK(m[1])) => Verdict = "error"
        /\ NoShortCircuitAtInvalidityDate

\* the signing time is unset and a lone hold with an invalidity date is Revoked
C16_Witness ==
    /\ pc = "checked"
    /\ opts.SigningTime = 0
    /\ LET m == MatchingEntries(bundle, cert) IN
          /\ Len(m) = 1
          /\ IsHold(m[1])
          /\ ParsesOK(m[1])
          /\ parseEntryExtensions(m[1]).invalidityDate > 0
          /\ WithoutInvalidityDate(m[1]) # m[1]
    /\ Verdict = "Revoked"

(***************************************************************************)
(* C17                                                                     *)
(***************************************************************************)
\* the extension is one that parseEntryExtensions rejects: an invalidity date
\* whose value is not one GeneralizedTime and nothing more, or another extension
\* that is critical
RejectedExtension(x) ==
    IF x.Id = <<2, 5, 29, 24>>
    THEN ~(Len(x.Value) = 1 /\ x.Value[1].tag = "GeneralizedTime")
    ELSE x.Critical

FailsToParse(e) == \E i \in 1..Len(e.Extensions) : RejectedExtension(e.Extensions[i])

\* the positions of the matching entries that the walk reaches and that fail to
\* parse: no matching entry before them fails to parse or ends the walk
UnparsableReached(m, signingTime) ==
    {f \in 1..Len(m) :
        /\ FailsToParse(m[f])
        /\ \A j \in 1..(f - 1) : ~FailsToParse(m[j]) /\ ~EndsWalk(m[j], signingTime)}

\* C17: once the walk of checkRevocation over an accepted bundle reaches, before
\* any decisive entry, a matching entry whose extensions fail to parse,
\* checkRevocation has returned that entry's parse error and no result, and
\* CertCheckStatus has returned Unknown with that error for the URL.
C17_ParseFailureGivesUnknown ==
    (Visited /\ (pc = "done" => BundleAccepted)) =>
        LET m == MatchingEntries(bundle, cert) IN
        \A f \in UnparsableReached(m, opts.SigningTime) :
            /\ pc = "done"
            /\ Resolved.result = NilResult
            /\ Resolved.err # NilErr
            /\ Resolved.err = parseEntryExtensions(m[f]).err
            /\ ret = Overall("Unknown",
                       <<Report("Unknown", CurrentURL,
                           <<"failed to check revocation status from", CurrentURL>>
                               \o Resolved.err)>>)

\* a hold in the base CRL, then in the delta CRL an entry that fails to parse
C17_Witness ==
    /\ pc = "done"
    /\ Visited
    /\ BundleAccepted
    /\ bundle.DeltaCRL # NilCRL
    /\ LET m == MatchingEntries(bundle, cert) IN
          /\ Len(m) = 2
          /\ IsHold(m[1])
          /\ UnparsableReached(m, opts.SigningTime) = {2}
    /\ ret.Result = "Unknown"

(***************************************************************************)
(* C18                                                                     *)
(***************************************************************************)
\* the positions of the CRL's critical extensions other than the issuing
\* distribution point and the delta CRL indicator
UnsupportedCriticalPositions(crl) ==
    {i \in 1..Len(crl.Extensions) :
        /\ crl.Extensions[i].Critical
        /\ crl.Extensions[i].Id \notin {<<2, 5, 29, 28>>, <<2, 5, 29, 27>>}}

\* the CRL passes the checks that validateCRL makes before it reads the
\* extensions, at the instant t
SignedAndCurrent(crl, t) ==
    crl.Signer = issuer.Subject /\ crl.NextUpdate # 0 /\ crl.NextUpdate >= t

\* C18: validateCRL rejects a CRL with a critical extension other than the
\* issuing distribution point and the delta CRL indicator, with the error that
\* names the first such extension when the CRL's signature and next-update time
\* pass; it accepts every other correctly signed, current CRL, whatever other
\* extensions it has, critical or not, as base CRL as well as delta CRL; and a
\* base CRL that is so rejected gives Unknown.
C18_OnlyUnsupportedCriticalExtensionsRejected ==
    Visited =>
        /\ \A p \in ValidatedCRLs :
              LET crl == p[1]
                  t == p[2]
                  err == validateCRL(crl, issuer, t)
                  bad == UnsupportedCriticalPositions(crl)
              IN  /\ bad # {} => err # NilErr
                  /\ (SignedAndCurrent(crl, t) /\ bad = {}) => err = NilErr
                  /\ (SignedAndCurrent(crl, t) /\ bad # {}) =>
                        \E i \in bad :
                            /\ \A j \in bad : i <= j
                            /\ err = <<"unsupported critical extension found in CRL",
                                       crl.Extensions[i].Id>>
        /\ UnsupportedCriticalPositions(bundle.BaseCRL) # {} =>
              (pc = "done" /\ ret.Result = "Unknown")

\* a bundle accepted with a critical delta CRL indicator on its base CRL
C18_Witness ==
    /\ pc = "loop"
    /\ Visited
    /\ \E i \in 1..Len(bundle.BaseCRL.Extensions) :
          /\ bundle.BaseCRL.Extensions[i].Id = <<2, 5, 29, 27>>
          /\ bundle.BaseCRL.Extensions[i].Critical
    /\ validate(bundle, issuer, now) = NilErr

(***************************************************************************)
(* C19                                                                     *)
(***************************************************************************)
\* C19: every result that CertCheckStatus returns has method CRL, one of the four
\* statuses and at least one ServerResult; every ServerResult has the overall
\* status and method CRL; and only a result with status OK has more than one.
C19_ResultWellFormed ==
    pc = "done" =>
        /\ ret.RevocationMethod = "CRL"
        /\ ret.Result \in {"OK", "Revoked", "Unknown", "NonRevokable"}
        /\ Len(ret.ServerResults) >= 1
        /\ \A i \in 1..Len(ret.ServerResults) :
              /\ ret.ServerResults[i].Result = ret.Result
              /\ ret.ServerResults[i].RevocationMethod = "CRL"
        /\ ret.Result # "OK" => Len(ret.ServerResults) = 1

\* Unknown at the third URL, after two OK results that are not returned
C19_Witness ==
    /\ pc = "done"
    /\ ret.Result = "Unknown"
    /\ Len(serverResults) = 2
    /\ Len(ret.ServerResults) = 1
    /\ ret.ServerResults[1].RevocationMethod = "CRL"

(***************************************************************************)
(* C20                                                                     *)
(***************************************************************************)
\* entries of other certificates: every reason and timestamp, and extensions
\* that parse and extensions that do not
OtherCertificateEntries ==
    {[SerialNumber |-> 43, RevocationTime |-> t, ReasonCode |-> r, Extensions |-> <<>>] :
        t \in {1, 2}, r \in {1, 6, 8}}
    \cup
    {[SerialNumber |-> 43, RevocationTime |-> 2, ReasonCode |-> 6, Extensions |-> x] :
        x \in {
               <<[Id |-> <<2, 5, 29, 24>>, Critical |-> FALSE,
                  Value |-> <<[tag |-> "GeneralizedTime", val |-> 3]>>]>>,
               <<[Id |-> <<2, 5, 29, 24>>, Critical |-> FALSE,
                  Value |-> <<[tag |-> "NULL", val |-> 0]>>]>>,
               <<[Id |-> <<2, 5, 29, 29>>, Critical |-> TRUE,
                  Value |-> <<[tag |-> "NULL", val |-> 0]>>]>>}}

\* the entries with every entry of another certificate replaced by e
WithOthersReplaced(entries, c, e) ==
    [i \in 1..Len(entries) |->
        IF entries[i].SerialNumber = c.SerialNumber THEN entries[i] ELSE e]

\* the bundle with every entry of another certificate replaced by e
ReplaceOthers(b, c, e) ==
    [BaseCRL |-> [b.BaseCRL EXCEPT
                     !.RevokedCertificateEntries = WithOthersReplaced(@, c, e)],
     DeltaCRL |-> IF b.DeltaCRL = NilCRL THEN NilCRL
                  ELSE [b.DeltaCRL EXCEPT
                           !.RevokedCertificateEntries = WithOthersReplaced(@, c, e)]]

\* the bundle without the entries of other certificates
OnlyMatching(b, c) ==
    LET matches(e) == e.SerialNumber = c.SerialNumber IN
    [BaseCRL |-> [b.BaseCRL EXCEPT
                     !.RevokedCertificateEntries = SelectSeq(@, matches)],
     DeltaCRL |-> IF b.DeltaCRL = NilCRL THEN NilCRL
                  ELSE [b.DeltaCRL EXCEPT
                           !.RevokedCertificateEntries = SelectSeq(@, matches)]]

\* the bundle holds an entry of another certificate
HasOtherEntries(b, c) ==
    \E i \in 1..Len(MergeOrder(b)) : MergeOrder(b)[i].SerialNumber # c.SerialNumber

\* C20: what checkRevocation returns for a bundle is what it returns for the
\* bundle with the entries of other certificates replaced by any other such
\* entries, whatever their reason codes, timestamps and extensions, and for the
\* bundle without them.
C20_OtherEntriesHaveNoInfluence ==
    (pc = "checked" /\ HasOtherEntries(bundle, cert)) =>
        /\ \A e \in OtherCertificateEntries :
              ret = checkRevocation(cert, ReplaceOthers(bundle, cert, e),
                                    opts.SigningTime, crlURL)
        /\ ret = checkRevocation(cert, OnlyMatching(bundle, cert),
                                 opts.SigningTime, crlURL)

\* a hold of the certificate after an entry of another certificate that has an
\* unsupported critical extension: Revoked, and no error
C20_Witness ==
    /\ pc = "checked"
    /\ Len(MergeOrder(bundle)) = 2
    /\ MergeOrder(bundle)[1].SerialNumber # cert.SerialNumber
    /\ FailsToParse(MergeOrder(bundle)[1])
    /\ MergeOrder(bundle)[2].SerialNumber = cert.SerialNumber
    /\ IsHold(MergeOrder(bundle)[2])
    /\ Verdict = "Revoked"

====
